---- MODULE Spec2Model ----
(***************************************************************************)
(* The hash-chained audit ledger of blockchain_service.py: statements are  *)
(* appended by append_statement and batched into blocks by                 *)
(* maybe_seal_block.  Several request workers, each with its own           *)
(* SQLAlchemy session, run against one SQLite database (config.py, the     *)
(* default SQLALCHEMY_DATABASE_URI).  A SELECT reads the committed tables; *)
(* the first INSERT of a unit of work takes the database write lock, which *)
(* is held until COMMIT.                                                   *)
(***************************************************************************)
EXTENDS Integers, Sequences, FiniteSets, TLC

\* ------------------------------------------------------------------ bounds
MaxStatements == 4
MaxBlockSize == 2
MaxClock == 1
MaxBlocks == 21
MaxChain == 2

Workers == {"w1", "w2"}
\* SQL NULL in an integer column; primary keys start at 1
NULL == 0
\* Python None where a str is expected, and the empty str
None == [none |-> TRUE]
EmptyStr == [str |-> ""]
\* Optional[int] argument: <<>> is None, <<n>> is the integer n
NoLimit == <<>>
NoWorker == "nobody"
\* the events a worker records (kind, payload, user_id): worker w1 serves
\* an anonymous visitor (log_http_request), worker w2 the signup of user 1
EventsOf(w) ==
    IF w = "w1"
    THEN {[kind |-> "http_request", payload |-> "GET /", user_id |-> NULL]}
    ELSE {[kind |-> "signup", payload |-> "username", user_id |-> 1]}
\* the deployments checked run with the configured BLOCK_SIZE
BlockSizes == {MaxBlockSize}

VARIABLES
    statements,   \* table statements, rows in insertion order
    blocks,       \* table blocks, rows in insertion order
    writer,       \* worker holding the database write lock, or NoWorker
    BLOCK_SIZE,   \* app.config["BLOCK_SIZE"]
    clock,        \* datetime.utcnow()
    pc,           \* position of each worker inside the ledger functions
    st,           \* append_statement: the pending Statement of each worker
    unsealed,     \* maybe_seal_block: the Statement objects loaded by the worker
    position,     \* maybe_seal_block: index, prev_hash, created_at, digest
    block,        \* maybe_seal_block: the pending Block of each worker
    returned,     \* ids of the statements append_statement returned to each caller
    outcome,      \* the last completed ledger call: function, worker, result
    handler,      \* the request each worker serves and how far its handler got
    session,      \* db.session of each worker: rows added but not committed,
                  \* and whether a failed flush left it waiting for a rollback
    reviews,      \* table reviews: number of committed rows
    response,     \* the last response sent: endpoint, status, review saved
    log,          \* diagnostics written by the callers of the ledger
    listing,      \* the block listing rendered last: pagination.page and
                  \* blocks_with_counts
    arg_limit     \* maybe_seal_block: the limit argument of each worker's
                  \* current or latest call

vars == <<statements, blocks, writer, BLOCK_SIZE, clock, pc, st, unsealed,
          position, block, returned, outcome, handler, session, reviews,
          response, log, listing, arg_limit>>

\* ----------------------------------------------------------------- helpers
Max(S) == IF S = {} THEN 0 ELSE CHOOSE x \in S : \A y \in S : y <= x

Range(s) == {s[i] : i \in 1..Len(s)}

Ids(rows) == {rows[i].id : i \in 1..Len(rows)}

RECURSIVE SortById(_)
\* ORDER BY id ASC
SortById(S) ==
    IF S = {} THEN <<>>
    ELSE LET m == CHOOSE r \in S : \A q \in S : r.id <= q.id
         IN  <<m>> \o SortById(S \ {m})

\* the query returns one row less than asked for
Limit_short(rows, n) ==
    IF n < 0 THEN rows
    ELSE IF n - 1 >= Len(rows) THEN rows ELSE SubSeq(rows, 1, n - 1)

\* .limit(n): the first n rows; SQLite treats a negative LIMIT as no limit
Limit(rows, n) ==
    IF n < 0 \/ n >= Len(rows) THEN rows ELSE SubSeq(rows, 1, n)

\* datetime.isoformat()
isoformat(t) == <<"iso", t>>

\* datetime.utcnow() may read the same instant again or a later one
Instants == {t \in clock..MaxClock : t <= clock + 1}

\* ------------------------------------------------------------ the database
\* a database without the single-writer lock
CanWrite_nolock(w) == TRUE

\* SQLite lets one connection write at a time
CanWrite(w) == writer = NoWorker \/ writer = w

\* ids handed out downwards
NextStatementId_descending ==
    MaxStatements + 1 - Cardinality(Ids(statements)
        \cup {st[w].id : w \in {v \in Workers : pc[v] = "appending"}})

\* INTEGER PRIMARY KEY of a new row: one more than the largest one in use
NextStatementId ==
    Max(Ids(statements) \cup {st[w].id : w \in {v \in Workers : pc[v] = "appending"}}) + 1

NextBlockId ==
    Max(Ids(blocks) \cup {block[w].id : w \in {v \in Workers : pc[v] = "flushed"}}) + 1

\* UNIQUE constraint on blocks.index
IndexTaken(index) == \E i \in 1..Len(blocks) : blocks[i].index = index

\* Statement.query.filter(block_id IS NULL)
Unsealed == {s \in Range(statements) : s.block_id = NULL}

count_unsealed == Cardinality(Unsealed)

\* statements of a block, as Block.statements loads them
StatementsOf(b) == SortById({s \in Range(statements) : s.block_id = b.id})

\* -------------------------------------------------------- _calc_block_hash
\* SHA-256 of the canonical JSON document, modelled by the document itself
_calc_block_hash(index, prev_hash, stmts, created_at) ==
    [index      |-> index,
     prev_hash  |-> IF prev_hash = None \/ prev_hash = EmptyStr THEN EmptyStr ELSE prev_hash,
     created_at |-> isoformat(created_at),
     statements |-> [i \in 1..Len(stmts) |->
                       [id         |-> stmts[i].id,
                        kind       |-> stmts[i].kind,
                        user_id    |-> stmts[i].user_id,
                        created_at |-> isoformat(stmts[i].created_at),
                        payload    |-> stmts[i].payload]]]

\* ------------------------------------------- _get_next_index_and_prev_hash
\* the position skips an index
_get_next_index_and_prev_hash_gap ==
    IF blocks = <<>> THEN <<0, None>>
    ELSE LET last == CHOOSE b \in Range(blocks) :
                        \A c \in Range(blocks) : c.index <= b.index
         IN  <<last.index + 2, last.hash>>

\* the position links to the predecessor's predecessor
_get_next_index_and_prev_hash_stale ==
    IF blocks = <<>> THEN <<0, None>>
    ELSE LET last == CHOOSE b \in Range(blocks) :
                        \A c \in Range(blocks) : c.index <= b.index
         IN  <<last.index + 1, last.prev_hash>>

\* the position follows the first block of the chain, not the last
_get_next_index_and_prev_hash_first ==
    IF blocks = <<>> THEN <<0, None>>
    ELSE LET last == CHOOSE b \in Range(blocks) :
                        \A c \in Range(blocks) : b.index <= c.index
         IN  <<last.index + 1, last.hash>>

_get_next_index_and_prev_hash ==
    IF blocks = <<>> THEN <<0, None>>
    ELSE LET last == CHOOSE b \in Range(blocks) :
                        \A c \in Range(blocks) : c.index <= b.index
         IN  <<last.index + 1, last.hash>>

\* ------------------------------------------------------------------- state
NoStatement == [id |-> 0]
NoPosition == [index |-> -1]
NoBlock == [id |-> 0]
NoOutcome == [call |-> "none", worker |-> NoWorker, result |-> "none"]

NoRequest == [endpoint |-> "none", stage |-> "none"]
Ready == [endpoint |-> "none", stage |-> "ready"]
NewSession == [pending |-> 0, inactive |-> FALSE, saved |-> FALSE]
NoListing == [page |-> 0, items |-> <<>>]
NoResponse == [endpoint |-> "none", status |-> 0, saved |-> FALSE]

\* the ledger is called on its own (handler NoRequest) or by a request handler
\* that has reached the call
MayCall(w, call) ==
    \/ handler[w] = NoRequest
    \/ call = "append_statement" /\ handler[w].stage \in {"hook_append", "audit_append"}
    \/ call = "maybe_seal_block" /\ handler[w].stage \in {"hook_seal", "audit_seal"}

\* where the handler goes on when a ledger call returns or raises: both calls
\* are in one try block whose except clause is "pass"
Continue(h, raised) ==
    CASE h.stage = "hook_append"  -> [h EXCEPT !.stage = IF raised THEN "view" ELSE "hook_seal"]
      [] h.stage = "hook_seal"    -> [h EXCEPT !.stage = "view"]
      [] h.stage = "audit_append" -> [h EXCEPT !.stage = IF raised THEN "commit" ELSE "audit_seal"]
      [] h.stage = "audit_seal"   -> [h EXCEPT !.stage = "commit"]
      [] OTHER                    -> h

\* the ledger call of worker w returns
Returns(w) == handler' = [handler EXCEPT ![w] = Continue(@, FALSE)]

\* the ledger call of worker w raises: the transaction is rolled back and the
\* rows added to the session are dropped. After a failed flush the session of
\* a request handler stays unusable until a rollback, which no caller issues;
\* after a failed COMMIT it may or may not be usable (inactive)
Raises(w, inactive) ==
    /\ handler' = [handler EXCEPT ![w] = Continue(@, TRUE)]
    /\ session' = [session EXCEPT ![w] =
                      [@ EXCEPT !.pending = 0,
                                !.inactive = handler[w] # NoRequest /\ inactive]]

Init ==
    /\ handler = [w \in Workers |-> NoRequest]
    /\ session = [w \in Workers |-> NewSession]
    /\ reviews = 0
    /\ response = NoResponse
    /\ log = <<>>
    /\ listing = NoListing
    /\ arg_limit = [w \in Workers |-> NoLimit]
    /\ statements = <<>>
    /\ blocks = <<>>
    /\ writer = NoWorker
    /\ BLOCK_SIZE \in BlockSizes
    /\ clock = 0
    /\ pc = [w \in Workers |-> "idle"]
    /\ st = [w \in Workers |-> NoStatement]
    /\ unsealed = [w \in Workers |-> <<>>]
    /\ position = [w \in Workers |-> NoPosition]
    /\ block = [w \in Workers |-> NoBlock]
    /\ returned = [w \in Workers |-> <<>>]
    /\ outcome = NoOutcome

\* -------------------------------------------------------- append_statement
\* st = Statement(...); db.session.add(st); commit() begins with the INSERT
AppendInsert(w, kind, payload, user_id) ==
    /\ pc[w] = "idle"
    /\ MayCall(w, "append_statement")
    /\ CanWrite(w)
    /\ Len(statements) + Cardinality({v \in Workers : pc[v] = "appending"}) < MaxStatements
    /\ \E t \in Instants :
         /\ clock' = t
         /\ st' = [st EXCEPT ![w] = [id |-> NextStatementId, kind |-> kind,
                                     user_id |-> user_id, payload |-> payload,
                                     created_at |-> t, block_id |-> NULL]]
    /\ writer' = w
    /\ pc' = [pc EXCEPT ![w] = "appending"]
    /\ UNCHANGED <<statements, blocks, BLOCK_SIZE, unsealed, position, block,
                   returned, outcome, handler, session, reviews, response, log,
                   listing, arg_limit>>

\* ... and ends with COMMIT, which commits everything the session holds;
\* return st
AppendCommit(w) ==
    /\ pc[w] = "appending"
    /\ statements' = Append(statements, st[w])
    /\ writer' = NoWorker
    /\ returned' = [returned EXCEPT ![w] = Append(@, st[w].id)]
    /\ outcome' = [call |-> "append_statement", worker |-> w, result |-> "Statement"]
    /\ st' = [st EXCEPT ![w] = NoStatement]
    /\ pc' = [pc EXCEPT ![w] = "idle"]
    /\ reviews' = reviews + session[w].pending
    /\ session' = [session EXCEPT ![w] =
                      [@ EXCEPT !.pending = 0, !.saved = @ \/ session[w].pending > 0]]
    /\ Returns(w)
    /\ UNCHANGED <<blocks, BLOCK_SIZE, clock, unsealed, position, block, response, log,
                   listing, arg_limit>>

\* the INSERT finds the database locked until the busy timeout expires
AppendBusy(w) ==
    /\ pc[w] = "idle"
    /\ MayCall(w, "append_statement")
    /\ ~CanWrite(w)
    /\ outcome' = [call |-> "append_statement", worker |-> w, result |-> "OperationalError"]
    /\ Raises(w, TRUE)
    /\ UNCHANGED <<statements, blocks, writer, BLOCK_SIZE, clock, pc, st,
                   unsealed, position, block, returned, reviews, response, log,
                   listing, arg_limit>>

\* the statement is persisted although the commit reports a failure
AppendFail_persisted(w) ==
    /\ pc[w] = "appending"
    /\ statements' = Append(statements, st[w])
    /\ writer' = NoWorker
    /\ outcome' = [call |-> "append_statement", worker |-> w, result |-> "OperationalError"]
    /\ st' = [st EXCEPT ![w] = NoStatement]
    /\ pc' = [pc EXCEPT ![w] = "idle"]
    /\ \E inactive \in BOOLEAN : Raises(w, inactive)
    /\ UNCHANGED <<blocks, BLOCK_SIZE, clock, unsealed, position, block, returned,
                   reviews, response, log,
                   listing, arg_limit>>

\* the storage fails during the commit: the INSERT is rolled back
AppendFail(w) ==
    /\ pc[w] = "appending"
    /\ writer' = NoWorker
    /\ outcome' = [call |-> "append_statement", worker |-> w, result |-> "OperationalError"]
    /\ st' = [st EXCEPT ![w] = NoStatement]
    /\ pc' = [pc EXCEPT ![w] = "idle"]
    /\ \E inactive \in BOOLEAN : Raises(w, inactive)
    /\ UNCHANGED <<statements, blocks, BLOCK_SIZE, clock, unsealed, position, block,
                   returned, reviews, response, log,
                   listing, arg_limit>>

\* -------------------------------------------------------- maybe_seal_block
\* the limit argument is ignored
EffectiveSize_config(limit) == BLOCK_SIZE

\* size = limit or int(current_app.config.get("BLOCK_SIZE", DEFAULT_BLOCK_SIZE))
\* (Config always sets BLOCK_SIZE, so the default of the get is never taken)
EffectiveSize(limit) ==
    IF limit # NoLimit /\ limit[1] # 0 THEN limit[1] ELSE BLOCK_SIZE

\* the newest unsealed statements are loaded instead of the oldest
oldest_unsealed_newest(size) ==
    LET rows == SortById(Unsealed)
    IN  IF size < 0 \/ size >= Len(rows) THEN rows
        ELSE SubSeq(rows, Len(rows) - size + 1, Len(rows))

\* the query of lines 62-64
oldest_unsealed(size) == Limit(SortById(Unsealed), size)

\* the threshold test only rejects an empty batch
SealSelect_partial(w, limit) ==
    /\ pc[w] = "idle"
    /\ MayCall(w, "maybe_seal_block")
    /\ arg_limit' = [arg_limit EXCEPT ![w] = limit]
    /\ LET size == EffectiveSize(limit)
           rows == oldest_unsealed(size)
       IN  IF Len(rows) = 0
           THEN /\ outcome' = [call |-> "maybe_seal_block", worker |-> w, result |-> "None"]
                /\ Returns(w)
                /\ UNCHANGED <<pc, unsealed>>
           ELSE /\ unsealed' = [unsealed EXCEPT ![w] = rows]
                /\ pc' = [pc EXCEPT ![w] = "selected"]
                /\ UNCHANGED <<outcome, handler>>
    /\ UNCHANGED <<statements, blocks, writer, BLOCK_SIZE, clock, st, position,
                   block, returned, session, reviews, response, log,
                   listing>>

\* the threshold test also rejects a batch that is exactly full
SealSelect_strict(w, limit) ==
    /\ pc[w] = "idle"
    /\ MayCall(w, "maybe_seal_block")
    /\ arg_limit' = [arg_limit EXCEPT ![w] = limit]
    /\ LET size == EffectiveSize(limit)
           rows == oldest_unsealed(size)
       IN  IF Len(rows) <= size
           THEN /\ outcome' = [call |-> "maybe_seal_block", worker |-> w, result |-> "None"]
                /\ Returns(w)
                /\ UNCHANGED <<pc, unsealed>>
           ELSE /\ unsealed' = [unsealed EXCEPT ![w] = rows]
                /\ pc' = [pc EXCEPT ![w] = "selected"]
                /\ UNCHANGED <<outcome, handler>>
    /\ UNCHANGED <<statements, blocks, writer, BLOCK_SIZE, clock, st, position,
                   block, returned, session, reviews, response, log,
                   listing>>

\* lines 59-66: load the batch, return None when it is short
SealSelect(w, limit) ==
    /\ pc[w] = "idle"
    /\ MayCall(w, "maybe_seal_block")
    /\ arg_limit' = [arg_limit EXCEPT ![w] = limit]
    /\ LET size == EffectiveSize(limit)
           rows == oldest_unsealed(size)
       IN  IF Len(rows) < size
           THEN /\ outcome' = [call |-> "maybe_seal_block", worker |-> w, result |-> "None"]
                /\ Returns(w)
                /\ UNCHANGED <<pc, unsealed>>
           ELSE /\ unsealed' = [unsealed EXCEPT ![w] = rows]
                /\ pc' = [pc EXCEPT ![w] = "selected"]
                /\ UNCHANGED <<outcome, handler>>
    /\ UNCHANGED <<statements, blocks, writer, BLOCK_SIZE, clock, st, position,
                   block, returned, session, reviews, response, log,
                   listing>>

\* lines 68-70: chain position, timestamp and digest
SealPosition(w) ==
    /\ pc[w] = "selected"
    /\ \E t \in Instants :
         LET next == _get_next_index_and_prev_hash
         IN  /\ clock' = t
             /\ position' = [position EXCEPT ![w] =
                    [index |-> next[1], prev_hash |-> next[2], created_at |-> t,
                     digest |-> _calc_block_hash(next[1], next[2], unsealed[w], t)]]
    /\ pc' = [pc EXCEPT ![w] = "positioned"]
    /\ UNCHANGED <<statements, blocks, writer, BLOCK_SIZE, st, unsealed, block,
                   returned, outcome, handler, session, reviews, response, log,
                   listing, arg_limit>>

\* maybe_seal_block raises; its caller passes over the exception
Abandon(w, error, inactive) ==
    /\ outcome' = [call |-> "maybe_seal_block", worker |-> w, result |-> error]
    /\ Raises(w, inactive)
    /\ pc' = [pc EXCEPT ![w] = "idle"]
    /\ unsealed' = [unsealed EXCEPT ![w] = <<>>]
    /\ position' = [position EXCEPT ![w] = NoPosition]
    /\ block' = [block EXCEPT ![w] = NoBlock]

\* the block is committed by the flush, before the statements are marked
SealFlush_autocommit(w) ==
    /\ pc[w] = "positioned"
    /\ CanWrite(w)
    /\ IF IndexTaken(position[w].index)
       THEN /\ Abandon(w, "IntegrityError", TRUE)
            /\ UNCHANGED <<writer, blocks>>
       ELSE /\ block' = [block EXCEPT ![w] =
                  [id |-> NextBlockId, index |-> position[w].index,
                   prev_hash |-> position[w].prev_hash,
                   hash |-> position[w].digest,
                   created_at |-> position[w].created_at]]
            /\ blocks' = Append(blocks, block'[w])
            /\ writer' = w
            /\ pc' = [pc EXCEPT ![w] = "flushed"]
            /\ UNCHANGED <<unsealed, position, outcome, handler, session>>
    /\ UNCHANGED <<statements, BLOCK_SIZE, clock, st, returned, reviews, response, log,
                   listing, arg_limit>>

\* lines 72-74: INSERT the block and learn its id
SealFlush(w) ==
    /\ pc[w] = "positioned"
    /\ CanWrite(w)
    /\ IF IndexTaken(position[w].index)
       THEN /\ Abandon(w, "IntegrityError", TRUE)
            /\ UNCHANGED writer
       ELSE /\ block' = [block EXCEPT ![w] =
                  [id |-> NextBlockId, index |-> position[w].index,
                   prev_hash |-> position[w].prev_hash,
                   hash |-> position[w].digest,
                   created_at |-> position[w].created_at]]
            /\ writer' = w
            /\ pc' = [pc EXCEPT ![w] = "flushed"]
            /\ UNCHANGED <<unsealed, position, outcome, handler, session>>
    /\ UNCHANGED <<statements, blocks, BLOCK_SIZE, clock, st, returned, reviews,
                   response, log,
                   listing, arg_limit>>

\* the INSERT finds the database locked until the busy timeout expires
SealBusy(w) ==
    /\ pc[w] = "positioned"
    /\ ~CanWrite(w)
    /\ Abandon(w, "OperationalError", TRUE)
    /\ UNCHANGED <<statements, blocks, writer, BLOCK_SIZE, clock, st, returned,
                   reviews, response, log,
                   listing, arg_limit>>

\* the storage fails while the statements are marked or during the commit:
\* the block INSERT is rolled back
SealCommitFail(w) ==
    /\ pc[w] = "flushed"
    /\ \E inactive \in BOOLEAN : Abandon(w, "OperationalError", inactive)
    /\ writer' = NoWorker
    /\ UNCHANGED <<statements, blocks, BLOCK_SIZE, clock, st, returned, reviews,
                   response, log,
                   listing, arg_limit>>

\* every unsealed row is marked, not only the loaded ones
MarkSealed_all(rows, ids, block_id) ==
    [i \in 1..Len(rows) |->
        IF rows[i].block_id = NULL THEN [rows[i] EXCEPT !.block_id = block_id]
        ELSE rows[i]]

\* the rows that are not marked are dropped from the table
MarkSealed_dropping(rows, ids, block_id) ==
    SelectSeq([i \in 1..Len(rows) |->
                  IF rows[i].id \in ids THEN [rows[i] EXCEPT !.block_id = block_id]
                  ELSE rows[i]],
              LAMBDA r : r.block_id # NULL)

\* for s in unsealed: s.block_id = block.id -- UPDATE ... WHERE id = s.id
MarkSealed(rows, ids, block_id) ==
    [i \in 1..Len(rows) |->
        IF rows[i].id \in ids THEN [rows[i] EXCEPT !.block_id = block_id]
        ELSE rows[i]]

\* the new block takes the place of the last stored one
SealCommit_overwrite(w) ==
    /\ pc[w] = "flushed"
    /\ statements' = MarkSealed(statements, Ids(unsealed[w]), block[w].id)
    /\ blocks' = IF blocks = <<>> THEN <<block[w]>>
                 ELSE [blocks EXCEPT ![Len(blocks)] = block[w]]
    /\ writer' = NoWorker
    /\ outcome' = [call |-> "maybe_seal_block", worker |-> w, result |-> "Block"]
    /\ pc' = [pc EXCEPT ![w] = "idle"]
    /\ unsealed' = [unsealed EXCEPT ![w] = <<>>]
    /\ position' = [position EXCEPT ![w] = NoPosition]
    /\ block' = [block EXCEPT ![w] = NoBlock]
    /\ Returns(w)
    /\ UNCHANGED <<BLOCK_SIZE, clock, st, returned, session, reviews, response, log,
                   listing, arg_limit>>

\* lines 76-79: mark the loaded statements, COMMIT, return block
SealCommit(w) ==
    /\ pc[w] = "flushed"
    /\ statements' = MarkSealed(statements, Ids(unsealed[w]), block[w].id)
    /\ blocks' = Append(blocks, block[w])
    /\ writer' = NoWorker
    /\ outcome' = [call |-> "maybe_seal_block", worker |-> w, result |-> "Block"]
    /\ pc' = [pc EXCEPT ![w] = "idle"]
    /\ unsealed' = [unsealed EXCEPT ![w] = <<>>]
    /\ position' = [position EXCEPT ![w] = NoPosition]
    /\ block' = [block EXCEPT ![w] = NoBlock]
    /\ Returns(w)
    /\ UNCHANGED <<BLOCK_SIZE, clock, st, returned, session, reviews, response, log,
                   listing, arg_limit>>

\* ------------------------------------------------------------ specification
Limits == {NoLimit}

Next ==
    \/ \E w \in Workers : \E e \in EventsOf(w) :
          AppendInsert(w, e.kind, e.payload, e.user_id)
    \/ \E w \in Workers : AppendCommit(w)
    \/ \E w \in Workers : AppendBusy(w)
    \/ \E w \in Workers : AppendFail(w)
    \/ \E w \in Workers, limit \in Limits : SealSelect(w, limit)
    \/ \E w \in Workers : SealPosition(w)
    \/ \E w \in Workers : SealFlush(w)
    \/ \E w \in Workers : SealBusy(w)
    \/ \E w \in Workers : SealCommitFail(w)
    \/ \E w \in Workers : SealCommit(w)

Spec == Init /\ [][Next]_vars

\* ------------------------------------------------------- the request handlers
\* Every request first runs the before_request hook log_http_request, which
\* records the request and attempts to seal; the view function follows.
\* worker w1 serves an auditor reading the block listing, worker w2 a user
\* submitting reviews
EndpointsOf(w) == IF w = "w1" THEN {"blockchain_blocks"} ELSE {"request_detail"}

\* what a handler passes to append_statement at its stage
RequestEvents(h) ==
    CASE h.stage = "hook_append" ->
            {[kind |-> "http_request", payload |-> h.endpoint, user_id |-> 1]}
      [] h.stage = "audit_append" ->
            {[kind |-> "review_submit", payload |-> "rating", user_id |-> 1]}
      [] OTHER -> {}

\* the response is sent and the session of the request is removed
Respond(w, status, saved) ==
    /\ response' = [endpoint |-> handler[w].endpoint, status |-> status, saved |-> saved]
    /\ handler' = [handler EXCEPT ![w] = Ready]
    /\ session' = [session EXCEPT ![w] = NewSession]

\* a request arrives and log_http_request starts
log_http_request(w, endpoint) ==
    /\ handler[w] = Ready
    /\ handler' = [handler EXCEPT ![w] = [endpoint |-> endpoint, stage |-> "hook_append"]]
    /\ UNCHANGED <<statements, blocks, writer, BLOCK_SIZE, clock, pc, st, unsealed,
                   position, block, returned, outcome, session, reviews, response, log,
                   listing, arg_limit>>

\* GET /blockchain/blocks as its caller sees it: the response of the view.
\* What the view renders is blockchain_blocks_page.
blockchain_blocks(w) ==
    /\ handler[w] = [endpoint |-> "blockchain_blocks", stage |-> "view"]
    /\ Respond(w, IF session[w].inactive THEN 500 ELSE 200, FALSE)
    /\ UNCHANGED <<statements, blocks, writer, BLOCK_SIZE, clock, pc, st, unsealed,
                   position, block, returned, outcome, reviews, log,
                   listing, arg_limit>>

\* POST /requests/<id>, review form, up to db.session.add(rv): the queries of
\* the view raise when the session waits for a rollback
request_detail_add(w) ==
    /\ handler[w] = [endpoint |-> "request_detail", stage |-> "view"]
    /\ IF session[w].inactive
       THEN Respond(w, 500, FALSE)
       ELSE /\ session' = [session EXCEPT ![w].pending = @ + 1]
            /\ handler' = [handler EXCEPT ![w].stage = "audit_append"]
            /\ UNCHANGED response
    /\ UNCHANGED <<statements, blocks, writer, BLOCK_SIZE, clock, pc, st, unsealed,
                   position, block, returned, outcome, reviews, log,
                   listing, arg_limit>>

\* ... and after the try block: db.session.commit(); redirect
request_detail_commit(w) ==
    /\ handler[w] = [endpoint |-> "request_detail", stage |-> "commit"]
    /\ IF session[w].inactive
       THEN /\ Respond(w, 500, session[w].saved)
            /\ UNCHANGED reviews
       ELSE /\ reviews' = reviews + session[w].pending
            /\ Respond(w, 302, session[w].saved \/ session[w].pending > 0)
    /\ UNCHANGED <<statements, blocks, writer, BLOCK_SIZE, clock, pc, st, unsealed,
                   position, block, returned, outcome, log,
                   listing, arg_limit>>

\* the handler calls append_statement
AppendRequest(w) ==
    \E e \in RequestEvents(handler[w]) : AppendInsert(w, e.kind, e.payload, e.user_id)

InitApp ==
    /\ handler = [w \in Workers |-> Ready]
    /\ session = [w \in Workers |-> NewSession]
    /\ reviews = 0
    /\ response = NoResponse
    /\ log = <<>>
    /\ listing = NoListing
    /\ arg_limit = [w \in Workers |-> NoLimit]
    /\ statements = <<>>
    /\ blocks = <<>>
    /\ writer = NoWorker
    /\ BLOCK_SIZE \in BlockSizes
    /\ clock = 0
    /\ pc = [w \in Workers |-> "idle"]
    /\ st = [w \in Workers |-> NoStatement]
    /\ unsealed = [w \in Workers |-> <<>>]
    /\ position = [w \in Workers |-> NoPosition]
    /\ block = [w \in Workers |-> NoBlock]
    /\ returned = [w \in Workers |-> <<>>]
    /\ outcome = NoOutcome

NextApp ==
    \/ \E w \in Workers : \E endpoint \in EndpointsOf(w) : log_http_request(w, endpoint)
    \/ \E w \in Workers : blockchain_blocks(w)
    \/ \E w \in Workers : request_detail_add(w)
    \/ \E w \in Workers : request_detail_commit(w)
    \/ \E w \in Workers : AppendRequest(w)
    \/ \E w \in Workers : AppendCommit(w)
    \/ \E w \in Workers : AppendBusy(w)
    \/ \E w \in Workers : AppendFail(w)
    \/ \E w \in Workers, limit \in Limits : SealSelect(w, limit)
    \/ \E w \in Workers : SealPosition(w)
    \/ \E w \in Workers : SealFlush(w)
    \/ \E w \in Workers : SealBusy(w)
    \/ \E w \in Workers : SealCommitFail(w)
    \/ \E w \in Workers : SealCommit(w)

SpecApp == InitApp /\ [][NextApp]_vars

\* ------------------------------------------------- one caller, one at a time
\* A single worker serves one request after the other; each request records
\* and then attempts to seal in log_http_request (app.py lines 53-65). The
\* storage does not fail.
Caller == "w1"

NextSeq ==
    \/ \E endpoint \in EndpointsOf(Caller) : log_http_request(Caller, endpoint)
    \/ AppendRequest(Caller)
    \/ AppendCommit(Caller)
    \/ \E limit \in Limits : SealSelect(Caller, limit)
    \/ SealPosition(Caller)
    \/ SealFlush(Caller)
    \/ SealCommit(Caller)
    \/ blockchain_blocks(Caller)

SpecSeq == InitApp /\ [][NextSeq]_vars

\* ------------------------------------------------------- the block listing
\* app.py line 159
per_page == 10

\* request.args.get("page"): page numbers up to one past the last page, and 0
Pages == 0..(MaxBlocks \div per_page + 2)

RECURSIVE OrderByIndexDesc(_)
\* ORDER BY blocks.index DESC
OrderByIndexDesc(S) ==
    IF S = {} THEN <<>>
    ELSE LET m == CHOOSE r \in S : \A q \in S : q.block.index <= r.block.index
         IN  <<m>> \o OrderByIndexDesc(S \ {m})

\* lines 162-167: every block with COUNT(statements.id) over the outer join
\* on blocks.id = statements.block_id, grouped by block
blocks_query ==
    OrderByIndexDesc({[block |-> b,
                       statement_count |->
                           Cardinality({s \in Range(statements) : s.block_id = b.id})] :
                      b \in Range(blocks)})

\* the offset of a page is computed from the page number itself
paginate_offset(rows, page, size) ==
    LET p == IF page < 1 THEN 1 ELSE page
        first == p * size + 1
        last == IF (p + 1) * size < Len(rows) THEN (p + 1) * size ELSE Len(rows)
    IN  [page |-> p, items |-> SubSeq(rows, first, last)]

\* Query.paginate(page, per_page, error_out=False): a page below 1 is page 1;
\* LIMIT per_page OFFSET (page - 1) * per_page
paginate(rows, page, size) ==
    LET p == IF page < 1 THEN 1 ELSE page
        first == (p - 1) * size + 1
        last == IF p * size < Len(rows) THEN p * size ELSE Len(rows)
    IN  [page |-> p, items |-> SubSeq(rows, first, last)]

\* GET /blockchain/blocks?page=N, the view with what it hands to the template
blockchain_blocks_page(w, page) ==
    /\ handler[w] = [endpoint |-> "blockchain_blocks", stage |-> "view"]
    /\ listing' = IF session[w].inactive THEN listing
                  ELSE paginate(blocks_query, page, per_page)
    /\ Respond(w, IF session[w].inactive THEN 500 ELSE 200, FALSE)
    /\ UNCHANGED <<statements, blocks, writer, BLOCK_SIZE, clock, pc, st, unsealed,
                   position, block, returned, outcome, reviews, log, arg_limit>>

\* the statements of the n-th batch recorded by the caller, sealed in block_id
Batch(n, size, block_id) ==
    LET e == CHOOSE x \in EventsOf(Caller) : TRUE
    IN  [i \in 1..size |->
            [id |-> (n - 1) * size + i, kind |-> e.kind, user_id |-> e.user_id,
             payload |-> e.payload, created_at |-> 0, block_id |-> block_id]]

\* the block that maybe_seal_block appends to the chain for a batch
Sealed(chain, id, batch) ==
    LET tip == IF chain = <<>> THEN <<0, None>>
               ELSE <<chain[Len(chain)].index + 1, chain[Len(chain)].hash>>
    IN  [id |-> id, index |-> tip[1], prev_hash |-> tip[2],
         hash |-> _calc_block_hash(tip[1], tip[2], batch, 0), created_at |-> 0]

RECURSIVE LedgerAfter(_, _)
\* the tables after n batches of the given size were recorded and sealed
LedgerAfter(n, size) ==
    IF n = 0 THEN [statements |-> <<>>, blocks |-> <<>>]
    ELSE LET before == LedgerAfter(n - 1, size)
             batch == Batch(n, size, n)
         IN  [statements |-> before.statements \o batch,
              blocks |-> Append(before.blocks, Sealed(before.blocks, n, batch))]

\* ... and after a racing worker sealed the last batch a second time
Resealed(n, size) ==
    LET before == LedgerAfter(n, size)
        batch == Batch(n, size, n + 1)
    IN  [statements |-> SubSeq(before.statements, 1, (n - 1) * size) \o batch,
         blocks |-> Append(before.blocks, Sealed(before.blocks, n + 1, batch))]

\* an auditor opens the listing of a chain that has grown to some length; the
\* hook of the request has run
InitListing ==
    /\ BLOCK_SIZE \in BlockSizes
    /\ \E n \in 0..MaxBlocks : \E raced \in BOOLEAN :
          /\ raced => (n >= 1 /\ n < MaxBlocks)
          /\ LET ledger == IF raced THEN Resealed(n, BLOCK_SIZE)
                           ELSE LedgerAfter(n, BLOCK_SIZE)
             IN  /\ statements = ledger.statements
                 /\ blocks = ledger.blocks
                 /\ returned = [w \in Workers |->
                                   IF w = Caller
                                   THEN [i \in 1..Len(ledger.statements) |-> i]
                                   ELSE <<>>]
    /\ handler = [w \in Workers |->
                     IF w = Caller
                     THEN [endpoint |-> "blockchain_blocks", stage |-> "view"]
                     ELSE Ready]
    /\ session = [w \in Workers |-> NewSession]
    /\ reviews = 0
    /\ response = NoResponse
    /\ log = <<>>
    /\ listing = NoListing
    /\ arg_limit = [w \in Workers |-> NoLimit]
    /\ writer = NoWorker
    /\ clock = 0
    /\ pc = [w \in Workers |-> "idle"]
    /\ st = [w \in Workers |-> NoStatement]
    /\ unsealed = [w \in Workers |-> <<>>]
    /\ position = [w \in Workers |-> NoPosition]
    /\ block = [w \in Workers |-> NoBlock]
    /\ outcome = NoOutcome

NextListing == \E w \in Workers, page \in Pages : blockchain_blocks_page(w, page)

SpecListing == InitListing /\ [][NextListing]_vars

\* ---------------------------------------------------------- any configuration
\* BLOCK_SIZE is int(os.environ.get("BLOCK_SIZE", "10")), any integer, and
\* limit is any Optional[int]. One worker calls the ledger, in any order.
ConfigSizes == -1..MaxBlockSize

LimitsAny == {NoLimit} \cup {<<k>> : k \in -1..MaxBlockSize}

InitConfig ==
    /\ handler = [w \in Workers |-> NoRequest]
    /\ session = [w \in Workers |-> NewSession]
    /\ reviews = 0
    /\ response = NoResponse
    /\ log = <<>>
    /\ listing = NoListing
    /\ arg_limit = [w \in Workers |-> NoLimit]
    /\ statements = <<>>
    /\ blocks = <<>>
    /\ writer = NoWorker
    /\ BLOCK_SIZE \in ConfigSizes
    /\ clock = 0
    /\ pc = [w \in Workers |-> "idle"]
    /\ st = [w \in Workers |-> NoStatement]
    /\ unsealed = [w \in Workers |-> <<>>]
    /\ position = [w \in Workers |-> NoPosition]
    /\ block = [w \in Workers |-> NoBlock]
    /\ returned = [w \in Workers |-> <<>>]
    /\ outcome = NoOutcome

\* maybe_seal_block(limit), called while the chain is shorter than MaxChain
SealSelectAny(w, limit) ==
    /\ Len(blocks) + Cardinality({v \in Workers : pc[v] # "idle" /\ pc[v] # "appending"})
          < MaxChain
    /\ SealSelect(w, limit)

NextConfig ==
    \/ \E e \in EventsOf(Caller) : AppendInsert(Caller, e.kind, e.payload, e.user_id)
    \/ AppendCommit(Caller)
    \/ AppendFail(Caller)
    \/ \E limit \in LimitsAny : SealSelectAny(Caller, limit)
    \/ SealPosition(Caller)
    \/ SealFlush(Caller)
    \/ SealCommitFail(Caller)
    \/ SealCommit(Caller)

SpecConfig == InitConfig /\ [][NextConfig]_vars

\* ------------------------------------------------------------------ progress
\* The storage does not fail, and every worker goes on: a call that has
\* started takes its next step, and maybe_seal_block keeps being called.
\* The whole run falls within one instant of datetime.utcnow(): the time
\* stamps take no part in what a worker does next.
NextLive ==
    \/ \E w \in Workers : \E e \in EventsOf(w) :
          AppendInsert(w, e.kind, e.payload, e.user_id) /\ clock' = clock
    \/ \E w \in Workers : AppendCommit(w)
    \/ \E w \in Workers : AppendBusy(w)
    \/ \E w \in Workers, limit \in Limits : SealSelect(w, limit)
    \/ \E w \in Workers : SealPosition(w) /\ clock' = clock
    \/ \E w \in Workers : SealFlush(w)
    \/ \E w \in Workers : SealBusy(w)
    \/ \E w \in Workers : SealCommit(w)

Fairness ==
    \A w \in Workers :
        /\ WF_vars(AppendCommit(w))
        /\ WF_vars(\E limit \in Limits : SealSelect(w, limit))
        /\ WF_vars(SealPosition(w))
        /\ WF_vars(SealFlush(w) \/ SealBusy(w))
        /\ WF_vars(SealCommit(w))

SpecLive == Init /\ [][NextLive]_vars /\ Fairness

\* ------------------------------------------------------------------ claims
\* ids of the statements a block was sealed over (the batch its hash covers)
BatchIds(b) == {b.hash.statements[i].id : i \in 1..Len(b.hash.statements)}

\* the stored row of a statement id
StatementById(id) == CHOOSE s \in Range(statements) : s.id = id

NoStatementInTwoBlocks ==
    \A i, j \in 1..Len(blocks) :
        i # j => BatchIds(blocks[i]) \cap BatchIds(blocks[j]) = {}

BlockIdPermanent ==
    \A i \in 1..Len(statements) :
        statements[i].block_id # NULL
            => /\ i <= Len(statements')
               /\ statements'[i].block_id = statements[i].block_id

\* C1: exclusive sealing -- no statement is in the batch of two blocks, and a
\* block_id that is set never changes and never returns to NULL.
C1_ExclusiveSealing == [][NoStatementInTwoBlocks' /\ BlockIdPermanent]_vars

\* C2: the stored block indices are exactly 0 .. N-1 for N blocks, no index
\* is shared by two blocks and none is skipped.
C2_GaplessIndices ==
    /\ {blocks[i].index : i \in 1..Len(blocks)} = 0..(Len(blocks) - 1)
    /\ \A i, j \in 1..Len(blocks) : blocks[i].index = blocks[j].index => i = j

C2_Witness ==
    /\ Len(blocks) >= 2
    /\ \E w \in Workers : pc[w] = "positioned" /\ IndexTaken(position[w].index)

\* C3: racing sealers create one block per batch of statements -- the blocks
\* never outnumber the full batches recorded, every statement outside the
\* sealed batches stays unsealed, and no two blocks claim the same chain
\* position (index or prev_hash).
C3_OneBlockPerBatch ==
    /\ Len(blocks) * BLOCK_SIZE <= Len(statements)
    /\ count_unsealed = Len(statements) - Len(blocks) * BLOCK_SIZE
    /\ \A i, j \in 1..Len(blocks) :
          i # j => /\ blocks[i].index # blocks[j].index
                   /\ blocks[i].prev_hash # blocks[j].prev_hash

\* C4: every block with index > 0 has the hash of the one block with the
\* preceding index as prev_hash, and block 0 has no prev_hash.
C4_Linkage ==
    \A i \in 1..Len(blocks) :
        IF blocks[i].index = 0
        THEN blocks[i].prev_hash = None
        ELSE /\ Cardinality({j \in 1..Len(blocks) :
                                blocks[j].index = blocks[i].index - 1}) = 1
             /\ \A j \in 1..Len(blocks) :
                   blocks[j].index = blocks[i].index - 1
                       => blocks[i].prev_hash = blocks[j].hash

C4_Witness == \E i \in 1..Len(blocks) : blocks[i].index = 2

\* C5: the number of statements whose block_id refers to a block is exactly
\* the batch size, for every stored block.
C5_BatchCompleteness ==
    \A i \in 1..Len(blocks) :
        Cardinality({s \in Range(statements) : s.block_id = blocks[i].id}) = BLOCK_SIZE

\* C6: hashing a block's stored index, prev_hash, created_at and the
\* ascending-id list of the statements assigned to it gives its stored hash.
C6_HashReproducible ==
    \A i \in 1..Len(blocks) :
        _calc_block_hash(blocks[i].index, blocks[i].prev_hash,
                         StatementsOf(blocks[i]), blocks[i].created_at)
            = blocks[i].hash

\* a step in which worker w enters maybe_seal_block
SealAttemptBy(w) ==
    /\ pc[w] = "idle"
    /\ \/ pc'[w] = "selected"
       \/ /\ outcome' # outcome
          /\ outcome'.call = "maybe_seal_block"
          /\ outcome'.worker = w

\* C7: an attempt to seal made while count_unsealed is below the batch size
\* returns None and leaves the statement and block tables unchanged.
C7_IdempotentNoOp ==
    [][\A w \in Workers :
          (SealAttemptBy(w) /\ count_unsealed < EffectiveSize(NoLimit))
              => /\ outcome'.result = "None"
                 /\ outcome'.worker = w
                 /\ pc'[w] = "idle"
                 /\ statements' = statements
                 /\ blocks' = blocks]_vars

C7_Witness ==
    /\ outcome.call = "maybe_seal_block"
    /\ outcome.result = "None"
    /\ count_unsealed > 0
    /\ count_unsealed < EffectiveSize(NoLimit)
    /\ pc[outcome.worker] = "idle"

\* C8: the ids one caller gets back from successive append_statement calls
\* are strictly increasing, and no two statements have the same id.
C8_MonotonicIds ==
    /\ \A w \in Workers : \A i, j \in 1..Len(returned[w]) :
          i < j => returned[w][i] < returned[w][j]
    /\ \A i, j \in 1..Len(statements) :
          statements[i].id = statements[j].id => i = j

C8_Witness ==
    \E w \in Workers : Len(returned[w]) >= 2 /\ Len(statements) > Len(returned[w])

\* C9: statements become visible in id order -- a statement committed later
\* has a larger id than every statement committed before it, and a statement
\* still uncommitted has a larger id than every committed one.
C9_IdOrderIsCommitOrder ==
    /\ \A i, j \in 1..Len(statements) :
          i < j => statements[i].id < statements[j].id
    /\ \A w \in Workers :
          pc[w] = "appending"
              => \A i \in 1..Len(statements) : statements[i].id < st[w].id

C9_Witness ==
    /\ Len(statements) >= 2
    /\ \E w, v \in Workers :
          /\ pc[w] = "appending"
          /\ pc[v] = "selected"
          /\ returned[v] # <<>>

\* C10: the committed tables never show a block one of whose batch
\* statements still has a NULL block_id, nor a statement whose block_id is
\* not the id of a stored block.
C10_AtomicSealing ==
    /\ \A i \in 1..Len(blocks) : \A id \in BatchIds(blocks[i]) :
          /\ id \in Ids(statements)
          /\ StatementById(id).block_id # NULL
    /\ \A i \in 1..Len(statements) :
          statements[i].block_id # NULL => statements[i].block_id \in Ids(blocks)

C10_Witness ==
    /\ Len(blocks) >= 1
    /\ \E w, v \in Workers :
          /\ pc[w] = "flushed"
          /\ pc[v] = "selected"

\* a step in which maybe_seal_block, called by worker w, raises
SealFailureBy(w) ==
    /\ pc[w] \in {"positioned", "flushed"}
    /\ pc'[w] = "idle"
    /\ outcome'.worker = w
    /\ outcome'.result \in {"IntegrityError", "OperationalError"}

\* C11: when an attempt to seal fails, no block of the attempt is stored and
\* every statement the attempt selected still has a NULL block_id, so that a
\* later attempt can seal the same statements.
C11_FailedSealLeavesNoTrace ==
    [][\A w \in Workers :
          SealFailureBy(w)
              => /\ blocks' = blocks
                 /\ \A i \in 1..Len(statements') :
                       statements'[i].id \in Ids(unsealed[w])
                           => statements'[i].block_id = NULL]_vars

\* C12: marking fails with AlreadySealed when a target statement already has
\* a block_id; no block_id changes and the attempt stores no block.
C12_AlreadySealed ==
    [][\A w \in Workers :
          (/\ pc[w] = "flushed"
           /\ pc'[w] = "idle"
           /\ \E id \in Ids(unsealed[w]) : StatementById(id).block_id # NULL)
              => /\ outcome'.result = "AlreadySealed"
                 /\ statements' = statements
                 /\ blocks' = blocks]_vars

\* a step in which append_statement, called by worker w, raises
AppendFailureBy(w) ==
    /\ pc[w] \in {"idle", "appending"}
    /\ pc'[w] = "idle"
    /\ outcome' # outcome
    /\ outcome'.call = "append_statement"
    /\ outcome'.worker = w
    /\ outcome'.result = "OperationalError"

\* C13: a record that fails persists no statement and uses up no id -- the
\* next statement stored gets the id following the last stored one.
C13_FailedRecordLeavesNoTrace ==
    [][/\ \A w \in Workers : AppendFailureBy(w) => statements' = statements
       /\ Len(statements') > Len(statements)
             => statements'[Len(statements')].id = Max(Ids(statements)) + 1]_vars

C13_Witness ==
    /\ outcome.call = "append_statement"
    /\ outcome.result = "OperationalError"
    /\ pc[outcome.worker] = "appending"
    /\ st[outcome.worker].id = Len(statements) + 1
    /\ Len(statements) >= 1

\* the fields of a statement that are fixed at creation
Content(s) ==
    [id |-> s.id, kind |-> s.kind, user_id |-> s.user_id, payload |-> s.payload,
     created_at |-> s.created_at]

\* C19: no operation changes id, kind, user_id, payload or created_at of a
\* stored statement; a block_id changes only in the commit of an attempt to
\* seal, and only on the statements that attempt selected.
C19_StatementImmutability ==
    [][\A i \in 1..Len(statements) :
          /\ i <= Len(statements')
          /\ Content(statements'[i]) = Content(statements[i])
          /\ statements'[i].block_id # statements[i].block_id
                => \E w \in Workers :
                      /\ pc[w] = "flushed"
                      /\ pc'[w] = "idle"
                      /\ statements[i].id \in Ids(unsealed[w])
                      /\ statements'[i].block_id = block[w].id]_vars

C19_Witness ==
    /\ \E i \in 1..Len(statements) : statements[i].block_id # NULL
    /\ \E i \in 1..Len(statements) : statements[i].block_id = NULL
    /\ outcome.result = "Block"

\* C20: a stored block is never changed or deleted, and the block table
\* grows only by the commit of an attempt to seal, one block at a time.
C20_BlockImmutability ==
    [][/\ Len(blocks') >= Len(blocks)
       /\ \A i \in 1..Len(blocks) : blocks'[i] = blocks[i]
       /\ Len(blocks') > Len(blocks)
             => /\ Len(blocks') = Len(blocks) + 1
                /\ \E w \in Workers :
                      /\ pc[w] = "flushed"
                      /\ pc'[w] = "idle"
                      /\ blocks'[Len(blocks')] = block[w]
                      /\ outcome'.call = "maybe_seal_block"]_vars

C20_Witness ==
    /\ Len(blocks) >= 2
    /\ \E w \in Workers : pc[w] = "appending"

\* C14: a request whose ledger calls raise still completes and commits --
\* every review submission that is answered is answered with the redirect
\* that follows its commit, never with a server error, and its review row is
\* saved.
C14_LedgerFailureNotFatal ==
    response.endpoint = "request_detail" => response.status = 302 /\ response.saved

\* C15: whenever append_statement or maybe_seal_block raises inside a request
\* handler, the handler writes a diagnostic log entry.
C15_LogAndContinue ==
    [][\A w \in Workers :
          (handler[w] # NoRequest /\ (SealFailureBy(w) \/ AppendFailureBy(w)))
              => Len(log') > Len(log)]_vars

\* a step taken by worker w
StepBy(w) == pc'[w] # pc[w] \/ handler'[w] # handler[w]

\* C16: serving the block listing leaves the statement table and the block
\* table unchanged.
C16_ReadPathDoesNotWrite ==
    [][\A w \in Workers :
          (handler[w].endpoint = "blockchain_blocks" /\ StepBy(w))
              => statements' = statements /\ blocks' = blocks]_vars

\* C18: a record adds exactly one statement with a fresh id and a NULL
\* block_id and changes nothing else that is stored -- no existing statement,
\* no block, and no row of the calling business operation.
C18_RecordTouchesOnlyItsRow ==
    [][\A w \in Workers :
          (pc[w] = "appending" /\ pc'[w] = "idle" /\ outcome'.result = "Statement")
              => /\ Len(statements') = Len(statements) + 1
                 /\ SubSeq(statements', 1, Len(statements)) = statements
                 /\ statements'[Len(statements')].id \notin Ids(statements)
                 /\ statements'[Len(statements')].block_id = NULL
                 /\ blocks' = blocks
                 /\ reviews' = reviews
                 /\ session'[w].pending = session[w].pending]_vars

\* C22: an attempt that seals loads exactly batch-size statements, those with
\* the smallest ids among the ones unsealed when it selects, in ascending id
\* order; it hashes them in that order, and its commit sets block_id on
\* exactly those statements and leaves every other statement as it was.
C22_BatchSelection ==
    [][\A w \in Workers :
          /\ (pc[w] = "idle" /\ pc'[w] = "selected")
                => /\ Len(unsealed'[w]) = EffectiveSize(NoLimit)
                   /\ Range(unsealed'[w]) \subseteq Unsealed
                   /\ \A s \in Range(unsealed'[w]) : \A u \in Unsealed :
                         u \notin Range(unsealed'[w]) => s.id < u.id
                   /\ \A i, j \in 1..Len(unsealed'[w]) :
                         i < j => unsealed'[w][i].id < unsealed'[w][j].id
          /\ (pc[w] = "selected" /\ pc'[w] = "positioned")
                => [i \in 1..Len(position'[w].digest.statements) |->
                       position'[w].digest.statements[i].id]
                   = [i \in 1..Len(unsealed[w]) |-> unsealed[w][i].id]
          /\ (pc[w] = "flushed" /\ pc'[w] = "idle" /\ outcome'.result = "Block")
                => /\ Len(statements') = Len(statements)
                   /\ \A i \in 1..Len(statements) :
                         IF statements[i].id \in Ids(unsealed[w])
                         THEN statements'[i].block_id = block[w].id
                         ELSE statements'[i] = statements[i]]_vars

\* a block is sealed while a statement recorded during the attempt, one that
\* was not loaded, stays unsealed
C22_Witness ==
    /\ outcome.call = "maybe_seal_block"
    /\ outcome.result = "Block"
    /\ Len(blocks) >= 1
    /\ \E s \in Unsealed : \E i \in 1..Len(blocks) :
          /\ s.created_at <= blocks[i].created_at
          /\ s.id > Max(BatchIds(blocks[i]))
          /\ Cardinality(Unsealed) < BLOCK_SIZE

\* C23: the chain position of an attempt is what the block table holds when
\* the attempt reads the tip -- index 0 and no prev_hash when no block is
\* stored, otherwise one more than the highest stored index and the hash of
\* that block -- and the block the attempt creates carries that position.
C23_PositionReadFromStorage ==
    [][\A w \in Workers :
          /\ (pc[w] = "selected" /\ pc'[w] = "positioned")
                => IF blocks = <<>>
                   THEN /\ position'[w].index = 0
                        /\ position'[w].prev_hash = None
                   ELSE \E i \in 1..Len(blocks) :
                           /\ \A j \in 1..Len(blocks) : blocks[j].index <= blocks[i].index
                           /\ position'[w].index = blocks[i].index + 1
                           /\ position'[w].prev_hash = blocks[i].hash
          /\ (pc[w] = "positioned" /\ pc'[w] = "flushed")
                => /\ block'[w].index = position[w].index
                   /\ block'[w].prev_hash = position[w].prev_hash
          /\ (pc[w] = "flushed" /\ pc'[w] = "idle" /\ outcome'.result = "Block")
                => blocks' = Append(blocks, block[w])]_vars

\* a worker has read the tip that another worker has just sealed
C23_Witness ==
    /\ Len(blocks) >= 2
    /\ outcome.call = "maybe_seal_block"
    /\ outcome.result = "Block"
    /\ \E w \in Workers :
          /\ w # outcome.worker
          /\ pc[w] = "positioned"
          /\ position[w].index = blocks[Len(blocks)].index + 1
          /\ position[w].prev_hash = blocks[Len(blocks)].hash

\* C25: one call of maybe_seal_block creates at most one block, and when it
\* creates one the number of unsealed statements drops by exactly the batch
\* size (so a backlog of two batches or more leaves at least one batch
\* unsealed).
C25_OneAttemptOneBlock ==
    [][\A w \in Workers :
          /\ Len(blocks') <= Len(blocks) + 1
          /\ (pc[w] = "flushed" /\ pc'[w] = "idle" /\ outcome'.result = "Block")
                => /\ Len(blocks') = Len(blocks) + 1
                   /\ Cardinality(Unsealed') = Cardinality(Unsealed) - EffectiveSize(NoLimit)
                   /\ (Cardinality(Unsealed) >= 2 * EffectiveSize(NoLimit)
                          => Cardinality(Unsealed') >= EffectiveSize(NoLimit))]_vars

\* the statements of a block, by block_id
Members(b) == {s.id : s \in {r \in Range(statements) : r.block_id = b.id}}

\* C26: every sealed statement has a smaller id than every unsealed one, and
\* of two blocks the one with the smaller index holds the smaller ids.
C26_ConsecutiveRuns ==
    /\ \A s, u \in Range(statements) :
          (s.block_id # NULL /\ u.block_id = NULL) => s.id < u.id
    /\ \A i, j \in 1..Len(blocks) :
          blocks[i].index < blocks[j].index
              => \A a \in Members(blocks[i]) : \A b \in Members(blocks[j]) : a < b

RECURSIVE Records(_, _)
\* the number of ids append_statement returned to the workers in S
Records(ret, S) ==
    IF S = {} THEN 0
    ELSE LET w == CHOOSE v \in S : TRUE
         IN  Len(ret[w]) + Records(ret, S \ {w})

\* C27: no statement is lost -- every id append_statement returned is the id
\* of a stored statement, no stored statement ever disappears, and the sealed
\* and unsealed statements together are as many as the successful records.
C27_NoStatementLost ==
    [][/\ \A w \in Workers : Range(returned'[w]) \subseteq Ids(statements')
       /\ Ids(statements) \subseteq Ids(statements')
       /\ LET sealed == {s \in Range(statements') : s.block_id # NULL}
              records == Records(returned', Workers)
          IN  /\ Cardinality(sealed) + Cardinality(Unsealed') = records
              /\ Len(statements') = records]_vars

\* both workers have recorded, a racing sealer has sealed a batch twice, and
\* an attempt has failed
C27_Witness ==
    /\ \A w \in Workers : returned[w] # <<>>
    /\ Len(blocks) >= 2
    /\ Unsealed # {}
    /\ outcome.call = "maybe_seal_block"
    /\ outcome.result \in {"IntegrityError", "OperationalError"}

\* C24: with a single caller whose every record is followed at once by an
\* attempt to seal, after n records and their attempts the ledger holds
\* n div BLOCK_SIZE blocks and n mod BLOCK_SIZE unsealed statements, and
\* fewer than BLOCK_SIZE statements are unsealed after every attempt.
C24_EagerTriggerSequential ==
    (handler[Caller].stage \in {"view", "ready"})
        => LET n == Len(returned[Caller])
           IN  /\ Len(statements) = n
               /\ Len(blocks) = n \div BLOCK_SIZE
               /\ count_unsealed = n % BLOCK_SIZE
               /\ count_unsealed < BLOCK_SIZE

\* the caller has sealed two blocks, the second right after its last record
C24_Witness ==
    /\ handler[Caller].stage = "view"
    /\ Len(returned[Caller]) = 2 * BLOCK_SIZE
    /\ Len(blocks) = 2
    /\ outcome.result = "Block"

\* the number of stored blocks that come before block b in the listing
Rank(b) == Cardinality({c \in Range(blocks) : c.index > b.index})

C29_NoEmptyBlock ==
    \A i \in 1..Len(blocks) : BatchIds(blocks[i]) # {}

\* the batch size the claim expects for a limit argument (positive, None or 0)
ExpectedSize(limit) ==
    IF limit # NoLimit /\ limit[1] > 0 THEN limit[1] ELSE BLOCK_SIZE

\* C30: a call with a positive limit k uses k as the batch size and a call
\* with limit None or 0 uses the configured BLOCK_SIZE -- it returns None
\* exactly when fewer statements than that are unsealed and otherwise loads
\* that many -- and a block sealed by a call with a positive limit k holds
\* exactly k statements whatever BLOCK_SIZE is.
C30_EffectiveBatchSize ==
    [][\A w \in Workers :
          LET limit == arg_limit'[w]
              covered == limit = NoLimit \/ limit[1] >= 0
          IN  /\ (covered /\ pc[w] = "idle" /\ pc'[w] = "selected")
                    => /\ count_unsealed >= ExpectedSize(limit)
                       /\ ExpectedSize(limit) >= 0
                             => Len(unsealed'[w]) = ExpectedSize(limit)
              /\ (covered /\ pc[w] = "idle" /\ pc'[w] = "idle"
                    /\ outcome'.call = "maybe_seal_block" /\ outcome'.worker = w
                    /\ outcome'.result = "None")
                    => count_unsealed < ExpectedSize(limit)
              /\ (pc[w] = "flushed" /\ pc'[w] = "idle" /\ outcome'.result = "Block"
                    /\ limit # NoLimit /\ limit[1] > 0)
                    => Cardinality({s \in Range(statements') :
                                       s.block_id = block[w].id}) = limit[1]]_vars

\* a call with a positive limit other than BLOCK_SIZE has sealed a block
C30_Witness ==
    /\ outcome.call = "maybe_seal_block"
    /\ outcome.result = "Block"
    /\ arg_limit[outcome.worker] # NoLimit
    /\ arg_limit[outcome.worker][1] > 0
    /\ arg_limit[outcome.worker][1] # BLOCK_SIZE
    /\ BLOCK_SIZE > 0
    /\ Cardinality({s \in Range(statements) : s.block_id = blocks[Len(blocks)].id})
          = arg_limit[outcome.worker][1]

\* C28: while maybe_seal_block keeps being called and the storage does not
\* fail, a backlog of at least BLOCK_SIZE unsealed statements leads to a new
\* block, and once records have stopped the number of unsealed statements
\* falls below BLOCK_SIZE and stays there.
C28_SealingProgress ==
    /\ \A n \in 0..(MaxStatements - 1) :
          (count_unsealed >= BLOCK_SIZE /\ Len(blocks) = n) ~> (Len(blocks) > n)
    /\ <>[](count_unsealed < BLOCK_SIZE)

\* a backlog of a full batch while an attempt to seal has just failed
C28_Witness ==
    /\ count_unsealed >= BLOCK_SIZE
    /\ Len(blocks) >= 1
    /\ outcome.call = "maybe_seal_block"
    /\ outcome.result \in {"IntegrityError", "OperationalError"}
====
